---- MODULE Spec2Model ----
(***************************************************************************)
(* The generate_image tool of mcp-dalle-server/server.py as a state        *)
(* machine: argument validation, payload assembly, the remote call, the    *)
(* normalisation of its reply, the local persistence of the image and its  *)
(* metadata sidecar, and the session history.                              *)
(***************************************************************************)
EXTENDS Integers, Sequences, FiniteSets, TLC

\* ------------------------------------------------------------ bounds
NumProcs == 2      \* invocations the host may have in flight at once
MaxCalls == 2      \* invocations issued during one run of the process

Procs == 1..NumProcs

\* ------------------------------------------------------------ values
\* Python's None, as it appears in Optional[str] fields.
None == "None"

\* bool(x) of an Optional[str]
Truthy(s) == s # None /\ s # ""

\* dict.get(key, default)
DictGet(d, k, default) == IF k \in DOMAIN d THEN d[k] ELSE default

\* An Optional[List[...]] value: None, or a list.
NoneList == [none |-> TRUE, items |-> << >>]
ListOf(s) == [none |-> FALSE, items |-> s]

EmptyDict == << >>

\* ------------------------------------------------------------ inputs
Counts == {0, 1, 10, 11}

\* The tool's defaults, and a call that departs from each of them.
Profiles ==
    { [prompt |-> "a red fox", size |-> "1024x1024", quality |-> "standard",
       style |-> None, model |-> "dalle3", revise_prompt |-> TRUE],
      [prompt |-> "a red fox", size |-> "1792x1024", quality |-> "hd",
       style |-> "vivid", model |-> "dalle2", revise_prompt |-> FALSE] }

Request(f, n, model) ==
    [prompt |-> f.prompt, size |-> f.size, quality |-> f.quality, n |-> n,
     style |-> f.style, model |-> model, revise_prompt |-> f.revise_prompt]

\* Each profile with every count, under its own model and an unknown one.
Requests ==
    {Request(f, n, m) : f \in Profiles, n \in Counts, m \in {"dalle4"}}
    \cup {Request(f, n, f.model) : f \in Profiles, n \in Counts}

\* The requests of the concurrent specification.
ConcRequests ==
    {Request(f, 1, f.model) : f \in Profiles}
    \cup {Request(f, 11, f.model) : f \in Profiles}

NoArgs ==
    [prompt |-> "", size |-> "1024x1024", quality |-> "standard", n |-> 1,
     style |-> None, model |-> "dalle3", revise_prompt |-> TRUE]

\* ------------------------------------------------------------ validation
\* The lower limit off by one.
ValidCountFromZero(n) == ~(n < 0 \/ n > 10)

ValidCount(n) == ~(n < 1 \/ n > 10)

ValidModel(m) == m \in {"dalle3", "dalle2"}

\* ------------------------------------------------------------ payload
ModifiedPrompt(prompt, revise_prompt) ==
    IF ~revise_prompt THEN prompt \o " do not modify my prompt" ELSE prompt

\* The style key set whether or not the caller gave a style.
BuildParamsAlwaysStyle(a) ==
    [model |-> a.model,
     prompt |-> ModifiedPrompt(a.prompt, a.revise_prompt),
     n |-> a.n, size |-> a.size, quality |-> a.quality, style |-> a.style]

BuildParams(a) ==
    LET params == [model |-> a.model,
                   prompt |-> ModifiedPrompt(a.prompt, a.revise_prompt),
                   n |-> a.n, size |-> a.size, quality |-> a.quality]
    IN  IF Truthy(a.style) THEN params @@ ("style" :> a.style) ELSE params

NoParams == << >>

\* ------------------------------------------------------------ the remote client
\* What client.images.generate raises: str(e) of the exception.
ErrorMessages == {"Connection error.", ""}

Timestamps == {1700000000, 1700000001}
Urls == {"http://x/img.png"}
RevisedPrompts == {"a red fox in a field"}

\* One image of the reply as it comes over the wire: a JSON object in which
\* either key may be missing, null, or set.
WireImages ==
    LET urls == {EmptyDict} \cup {("url" :> u) : u \in Urls \cup {None}}
        revs == {EmptyDict}
                \cup {("revised_prompt" :> r) : r \in RevisedPrompts \cup {None}}
    IN  {u @@ r : u \in urls, r \in revs}

OtherImage == ("url" :> "http://x/other.png") @@ ("revised_prompt" :> "another fox")

FullImage ==
    ("url" :> "http://x/img.png") @@ ("revised_prompt" :> "a red fox in a field")

\* No list, no image, one image of every shape, or two images.
WireData ==
    {NoneList, ListOf(<< >>), ListOf(<<FullImage, OtherImage>>)}
    \cup {ListOf(<<i>>) : i \in WireImages}

Replies == [created : Timestamps, data : WireData]

ConcErrors == {"Connection error."}

\* Replies of one and the same second: no image, or one image.
ConcReplies ==
    [created : {1700000000},
     data : {ListOf(<< >>),
             ListOf(<<("url" :> "http://x/img.png") @@ ("revised_prompt" :> None)>>)}]

\* The typed image object the client library builds: every declared field is
\* an attribute, None when the wire object does not carry it.
ParseImage(w) ==
    [url |-> DictGet(w, "url", None),
     revised_prompt |-> DictGet(w, "revised_prompt", None)]

\* result: the typed reply object.
ParseReply(reply) ==
    [created |-> reply.created,
     data |-> IF reply.data.none THEN NoneList
              ELSE ListOf([i \in 1..Len(reply.data.items) |->
                              ParseImage(reply.data.items[i])])]

\* json.loads(result.model_dump_json()): every declared field becomes a key,
\* null included.
ModelDump(result) ==
    [created |-> result.created,
     data |-> IF result.data.none THEN NoneList
              ELSE ListOf([i \in 1..Len(result.data.items) |->
                              ("url" :> result.data.items[i].url)
                              @@ ("revised_prompt" :>
                                      result.data.items[i].revised_prompt)])]

\* ------------------------------------------------------------ folder name
\* datetime.fromtimestamp(t).strftime("%Y%m%d_%H%M%S"), for a process whose
\* local time is UTC: the fields <<Y, m, d, H, M, S>> of the rendering.
CivilFromDays(days) ==
    LET z == days + 719468
        era == z \div 146097
        doe == z - era * 146097
        yoe == (doe - doe \div 1460 + doe \div 36524 - doe \div 146096) \div 365
        doy == doe - (365 * yoe + yoe \div 4 - yoe \div 100)
        mp == (5 * doy + 2) \div 153
        d == doy - (153 * mp + 2) \div 5 + 1
        m == IF mp < 10 THEN mp + 3 ELSE mp - 9
        y == yoe + era * 400 + (IF m <= 2 THEN 1 ELSE 0)
    IN  <<y, m, d>>

Strftime(t) ==
    LET ymd == CivilFromDays(t \div 86400)
        sod == t % 86400
    IN  <<ymd[1], ymd[2], ymd[3], sod \div 3600, (sod % 3600) \div 60, sod % 60>>

\* ------------------------------------------------------------ normalisation
\* response_dict.get("data", [{}])[0].get("revised_prompt", prompt): the text,
\* or the exception the subscript raises.
RevisedPromptOf(response_dict, prompt) ==
    LET data == DictGet(response_dict, "data", ListOf(<<EmptyDict>>))
    IN  IF data.none
        THEN [raised |-> TRUE,
              error |-> "'NoneType' object is not subscriptable"]
        ELSE IF Len(data.items) = 0
        THEN [raised |-> TRUE, error |-> "list index out of range"]
        ELSE [raised |-> FALSE,
              value |-> DictGet(data.items[1], "revised_prompt", prompt)]

\* result.data[0].url if result.data else None
UrlOf(result) ==
    IF ~result.data.none /\ Len(result.data.items) > 0
    THEN result.data.items[1].url
    ELSE None

\* The response dict of lines 137-146.
MakeResponse(a, revised_prompt, url, timestamp) ==
    [success |-> TRUE, revised_prompt |-> revised_prompt, url |-> url,
     model |-> a.model, size |-> a.size, quality |-> a.quality,
     style |-> a.style, timestamp |-> timestamp]

\* Lines 129-146: the response built from the reply, or the exception raised
\* on the way (caught by the handler at line 202).
Normalise(a, reply) ==
    LET result == ParseReply(reply)
        response_dict == ModelDump(result)
        timestamp == DictGet(response_dict, "created", None)
        rp == RevisedPromptOf(response_dict, a.prompt)
    IN  IF rp.raised
        THEN [raised |-> TRUE, error |-> rp.error]
        ELSE [raised |-> FALSE,
              response |-> MakeResponse(a, rp.value, UrlOf(result), timestamp)]

\* The record of lines 203-206.
FailureRecord(e) == [success |-> FALSE, error |-> e]

\* ------------------------------------------------------------ local storage
\* The images directory: whether it exists, and its timestamp folders, each a
\* map from the name of a file in it to the file's content.
EmptyFS == [base |-> FALSE, folders |-> EmptyDict]

ImageName == "generated_image.png"
MetadataName == "metadata.json"

\* os.path.join(image_folder, name)
PathJoin(folder, name) == <<"images", folder, name>>

\* requests.get(url).content
Fetch(url) == <<"bytes at", url>>

\* A file opened for writing whose write failed: truncated, nothing flushed.
Truncated == << >>

MetadataKeys ==
    <<"prompt", "revised_prompt", "model", "size", "quality", "style",
      "timestamp", "image_path">>

\* The prompt as sent to the remote client recorded as the caller's.
MetadataOfSentPrompt(a, resp, image_path) ==
    [prompt |-> ModifiedPrompt(a.prompt, a.revise_prompt),
     revised_prompt |-> resp.revised_prompt,
     model |-> a.model, size |-> a.size, quality |-> a.quality,
     style |-> a.style, timestamp |-> resp.timestamp,
     image_path |-> image_path]

\* The metadata dict of lines 171-180.
Metadata(a, resp, image_path) ==
    [prompt |-> a.prompt, revised_prompt |-> resp.revised_prompt,
     model |-> a.model, size |-> a.size, quality |-> a.quality,
     style |-> a.style, timestamp |-> resp.timestamp,
     image_path |-> image_path]

\* json.dump of one value: null, a number or a string.
JsonValue(k, v) ==
    IF k = "timestamp" THEN <<"number", v>>
    ELSE IF k = "image_path" THEN <<"string", v>>
    ELSE IF v = None THEN <<"null">>
    ELSE <<"string", v>>

\* json.dump(metadata): the members in insertion order.
JsonDump(m) ==
    [i \in 1..Len(MetadataKeys) |->
        <<MetadataKeys[i], JsonValue(MetadataKeys[i], m[MetadataKeys[i]])>>]

FolderExists(f, folder) == folder \in DOMAIN f.folders

\* os.makedirs(images_dir)
MakeBaseDir(f) == [f EXCEPT !.base = TRUE]

\* os.makedirs(image_folder): a new, empty folder.
MakeFolder(f, folder) ==
    [f EXCEPT !.folders = (folder :> EmptyDict) @@ @]

\* open(path, mode) then write(content): the file holds content.
WriteFile(f, folder, name, content) ==
    [f EXCEPT !.folders[folder] = (name :> content) @@ @]

\* ------------------------------------------------------------ state
VARIABLES
    pc,                \* where each invocation stands in generate_image
    args,              \* the arguments of each invocation
    params,            \* the payload assembled at lines 113-123
    sent,              \* the payload the remote client received from it
    remote,            \* what client.images.generate did: raised, or result
    response,          \* the response dict under construction
    download_error,    \* the step whose exception line 193 caught, if any
    ret,               \* the record the invocation returns
    generated_images,  \* AppContext.generated_images, the session history
    fs,                \* the images directory
    client_calls,      \* how many times client.images.generate was called
    calls,             \* how many invocations the host has issued
    returned           \* the records handed back to the host, in order

vars ==
    <<pc, args, params, sent, remote, response, download_error, ret,
      generated_images, fs, client_calls, calls, returned>>

NoResponse == EmptyDict
NoRecord == EmptyDict
NotCalled == [kind |-> "none"]
Raised(e) == [kind |-> "raised", error |-> e]
Replied(result) == [kind |-> "reply", result |-> result]

\* Places where no invocation is running.
Rest == {"idle", "raised", "returned"}

Init ==
    /\ pc = [p \in Procs |-> "idle"]
    /\ args = [p \in Procs |-> NoArgs]
    /\ params = [p \in Procs |-> NoParams]
    /\ sent = [p \in Procs |-> NoParams]
    /\ remote = [p \in Procs |-> NotCalled]
    /\ response = [p \in Procs |-> NoResponse]
    /\ download_error = [p \in Procs |-> None]
    /\ ret = [p \in Procs |-> NoRecord]
    /\ generated_images = << >>
    /\ fs = EmptyFS
    /\ client_calls = 0
    /\ calls = 0
    /\ returned = << >>

\* The folder and the paths of lines 157, 163 and 182.
ImageFolder(p) == Strftime(response[p].timestamp)
ImagePath(p) == PathJoin(ImageFolder(p), ImageName)
MetadataPath(p) == PathJoin(ImageFolder(p), MetadataName)

\* Lines 187-188
WithLocalPaths(resp, image_path, metadata_path) ==
    ("local_image_path" :> image_path)
    @@ ("local_metadata_path" :> metadata_path) @@ resp

\* Without the inner try, the exception reaches the handler of line 202.
SaveFailedPropagates(p, step) ==
    /\ download_error' = [download_error EXCEPT ![p] = step]
    /\ pc' = [pc EXCEPT ![p] = "return"]
    /\ ret' = [ret EXCEPT ![p] = FailureRecord(step)]

\* The except clause of lines 193-195: log, and go on to line 198.
SaveFailed(p, step) ==
    /\ download_error' = [download_error EXCEPT ![p] = step]
    /\ pc' = [pc EXCEPT ![p] = "append"]
    /\ ret' = ret

\* A step of the persister that did not raise.
SaveStep(p, next) ==
    /\ pc' = [pc EXCEPT ![p] = next]
    /\ UNCHANGED <<download_error, ret>>

\* ------------------------------------------------------------ actions
\* Lines 97-123: the host calls the tool; the arguments are validated and
\* the payload is assembled, or ValueError is raised to the caller.
Invoke(p, requests) ==
    /\ pc[p] \in Rest
    /\ calls < MaxCalls
    /\ calls' = calls + 1
    /\ \E a \in requests :
        /\ args' = [args EXCEPT ![p] = a]
        /\ IF ~ValidCount(a.n) \/ ~ValidModel(a.model)
           THEN /\ pc' = [pc EXCEPT ![p] = "raised"]
                /\ params' = [params EXCEPT ![p] = NoParams]
           ELSE /\ pc' = [pc EXCEPT ![p] = "call"]
                /\ params' = [params EXCEPT ![p] = BuildParams(a)]
    /\ sent' = [sent EXCEPT ![p] = NoParams]
    /\ remote' = [remote EXCEPT ![p] = NotCalled]
    /\ response' = [response EXCEPT ![p] = NoResponse]
    /\ download_error' = [download_error EXCEPT ![p] = None]
    /\ ret' = [ret EXCEPT ![p] = NoRecord]
    /\ UNCHANGED <<generated_images, fs, client_calls, returned>>

\* Lines 125-146 and 202-206: the remote call, which raises or replies, and
\* the normalisation of the reply.
RemoteCall(p, errors, replies) ==
    /\ pc[p] = "call"
    /\ client_calls' = client_calls + 1
    /\ sent' = [sent EXCEPT ![p] = params[p]]
    /\ \/ \E e \in errors :
            /\ remote' = [remote EXCEPT ![p] = Raised(e)]
            /\ ret' = [ret EXCEPT ![p] = FailureRecord(e)]
            /\ pc' = [pc EXCEPT ![p] = "return"]
            /\ UNCHANGED response
       \/ \E reply \in replies :
            LET nz == Normalise(args[p], reply)
            IN  /\ remote' = [remote EXCEPT ![p] = Replied(ParseReply(reply))]
                /\ IF nz.raised
                   THEN /\ ret' = [ret EXCEPT ![p] = FailureRecord(nz.error)]
                        /\ pc' = [pc EXCEPT ![p] = "return"]
                        /\ UNCHANGED response
                   ELSE /\ response' = [response EXCEPT ![p] = nz.response]
                        /\ pc' = [pc EXCEPT ![p] =
                                     IF Truthy(nz.response.url)
                                     THEN "check_base" ELSE "append"]
                        /\ UNCHANGED ret
    /\ UNCHANGED <<args, params, download_error, generated_images, fs, calls,
                   returned>>

\* Line 153: os.path.isdir(images_dir)
CheckImagesDir(p) ==
    /\ pc[p] = "check_base"
    /\ SaveStep(p, IF fs.base THEN "check_folder" ELSE "make_base")
    /\ UNCHANGED <<args, params, sent, remote, response, generated_images,
                   fs, client_calls, calls, returned>>

\* Line 154: os.makedirs(images_dir), which raises when the directory has
\* appeared since line 153 or cannot be created.
MakeImagesDir(p) ==
    /\ pc[p] = "make_base"
    /\ \/ /\ ~fs.base
          /\ fs' = MakeBaseDir(fs)
          /\ SaveStep(p, "check_folder")
       \/ /\ SaveFailed(p, "makedirs images_dir")
          /\ UNCHANGED fs
    /\ UNCHANGED <<args, params, sent, remote, response, generated_images,
                   client_calls, calls, returned>>

\* Line 158: os.path.exists(image_folder)
CheckImageFolder(p) ==
    /\ pc[p] = "check_folder"
    /\ SaveStep(p, IF FolderExists(fs, ImageFolder(p))
                   THEN "download" ELSE "make_folder")
    /\ UNCHANGED <<args, params, sent, remote, response, generated_images,
                   fs, client_calls, calls, returned>>

\* Line 159: os.makedirs(image_folder)
MakeImageFolder(p) ==
    /\ pc[p] = "make_folder"
    /\ \/ /\ ~FolderExists(fs, ImageFolder(p))
          /\ fs' = MakeFolder(fs, ImageFolder(p))
          /\ SaveStep(p, "download")
       \/ /\ SaveFailed(p, "makedirs image_folder")
          /\ UNCHANGED fs
    /\ UNCHANGED <<args, params, sent, remote, response, generated_images,
                   client_calls, calls, returned>>

\* Line 164: requests.get(image_url).content
Download(p) ==
    /\ pc[p] = "download"
    /\ \/ SaveStep(p, "write_image")
       \/ SaveFailed(p, "requests.get")
    /\ UNCHANGED <<args, params, sent, remote, response, generated_images,
                   fs, client_calls, calls, returned>>

\* Lines 167-168: the image file is written, or open fails, or the write
\* fails and leaves the file truncated.
WriteImage(p) ==
    /\ pc[p] = "write_image"
    /\ \/ /\ fs' = WriteFile(fs, ImageFolder(p), ImageName,
                             Fetch(response[p].url))
          /\ SaveStep(p, "write_metadata")
       \/ /\ SaveFailed(p, "open image_path")
          /\ UNCHANGED fs
       \/ /\ SaveFailed(p, "write image_file")
          /\ fs' = WriteFile(fs, ImageFolder(p), ImageName, Truncated)
    /\ UNCHANGED <<args, params, sent, remote, response, generated_images,
                   client_calls, calls, returned>>

\* Lines 171-188: the metadata file is written and the local paths are added
\* to the response, or open fails, or the write fails.
WriteMetadata(p) ==
    /\ pc[p] = "write_metadata"
    /\ \/ /\ fs' = WriteFile(fs, ImageFolder(p), MetadataName,
                             JsonDump(Metadata(args[p], response[p],
                                               ImagePath(p))))
          /\ response' = [response EXCEPT ![p] =
                             WithLocalPaths(@, ImagePath(p), MetadataPath(p))]
          /\ SaveStep(p, "append")
       \/ /\ SaveFailed(p, "open metadata_path")
          /\ UNCHANGED <<fs, response>>
       \/ /\ SaveFailed(p, "json.dump")
          /\ fs' = WriteFile(fs, ImageFolder(p), MetadataName, Truncated)
          /\ UNCHANGED response
    /\ UNCHANGED <<args, params, sent, remote, generated_images,
                   client_calls, calls, returned>>

\* list.insert(0, response)
HistoryPrepend(history, record) == <<record>> \o history

\* An append that skips a record the history already holds.
HistoryAppendUnique(history, record) ==
    IF \E i \in 1..Len(history) : history[i] = record
    THEN history ELSE Append(history, record)

\* list.append(response), one indivisible operation of the interpreter.
HistoryAppend(history, record) == Append(history, record)

\* Line 198: the response is appended to the session history.
AppendHistory(p) ==
    /\ pc[p] = "append"
    /\ generated_images' = HistoryAppend(generated_images, response[p])
    /\ ret' = [ret EXCEPT ![p] = response[p]]
    /\ pc' = [pc EXCEPT ![p] = "return"]
    /\ UNCHANGED <<args, params, sent, remote, response, download_error, fs,
                   client_calls, calls, returned>>

\* Lines 201 and 203: the record goes back to the host.
Return(p) ==
    /\ pc[p] = "return"
    /\ returned' = Append(returned, ret[p])
    /\ pc' = [pc EXCEPT ![p] = "returned"]
    /\ UNCHANGED <<args, params, sent, remote, response, download_error, ret,
                   generated_images, fs, client_calls, calls>>

\* ------------------------------------------------------------ specifications
\* One invocation at a time: the host waits for each result.
Next ==
    \/ Invoke(1, Requests)
    \/ RemoteCall(1, ErrorMessages, Replies)
    \/ CheckImagesDir(1)
    \/ MakeImagesDir(1)
    \/ CheckImageFolder(1)
    \/ MakeImageFolder(1)
    \/ Download(1)
    \/ WriteImage(1)
    \/ WriteMetadata(1)
    \/ AppendHistory(1)
    \/ Return(1)

Spec == Init /\ [][Next]_vars

\* The host issues invocations concurrently, each on a thread of its own.
ConcNext ==
    \E p \in Procs :
        \/ Invoke(p, ConcRequests)
        \/ RemoteCall(p, ConcErrors, ConcReplies)
        \/ CheckImagesDir(p)
        \/ MakeImagesDir(p)
        \/ CheckImageFolder(p)
        \/ MakeImageFolder(p)
        \/ Download(p)
        \/ WriteImage(p)
        \/ WriteMetadata(p)
        \/ AppendHistory(p)
        \/ Return(p)

ConcSpec == Init /\ [][ConcNext]_vars

\* ------------------------------------------------------------ properties
\* The invocation has fixed the record it returns.
Finished(p) == pc[p] \in {"return", "returned"}

AllAtRest == \A p \in Procs : pc[p] \in Rest

InvalidArguments(a) ==
    a.n < 1 \/ a.n > 10 \/ a.model \notin {"dalle3", "dalle2"}

HasLocalPaths(r) ==
    "local_image_path" \in DOMAIN r \/ "local_metadata_path" \in DOMAIN r

IsSuccess(r) == r.success

\* The images of the reply the remote client gave to p.
ReplyImages(p) == remote[p].result.data.items

ReplyUrl(p) ==
    IF Len(ReplyImages(p)) = 0 THEN None ELSE ReplyImages(p)[1].url

\* The file at a path made by PathJoin.
ReadFile(f, path) == f.folders[path[2]][path[3]]

\* The metadata file parsed: json.load of a text written by JsonDump.
JsonLoad(text) ==
    [k \in {text[i][1] : i \in 1..Len(text)} |->
        LET member == text[CHOOSE i \in 1..Len(text) : text[i][1] = k]
        IN  IF member[2][1] = "null" THEN None ELSE member[2][2]]

Count(r, s) == Cardinality({i \in 1..Len(s) : s[i] = r})

\* C1: an invocation whose count is outside [1,10] or whose model is unknown
\* ends in the argument fault: no record is returned, the remote client is
\* not called for it, and the step that raises leaves the client's call
\* count, the images directory, the history and the returned records alone.
C1_ArgumentFault ==
    /\ [](\A p \in Procs :
            (pc[p] # "idle" /\ InvalidArguments(args[p]))
            => /\ pc[p] = "raised"
               /\ ret[p] = NoRecord
               /\ remote[p] = NotCalled
               /\ sent[p] = NoParams)
    /\ [][\A p \in Procs :
            (calls' # calls /\ pc'[p] = "raised")
            => /\ client_calls' = client_calls
               /\ fs' = fs
               /\ generated_images' = generated_images
               /\ returned' = returned]_vars

C1_Witness ==
    /\ pc[1] = "raised"
    /\ args[1].n = 11
    /\ Len(generated_images) = 1
    /\ fs.base
    /\ client_calls = 1

\* C2: when the remote call raises, the invocation returns a record with
\* success=false whose error is a non-empty description.
C2_RemoteErrorRecord ==
    \A p \in Procs :
        (Finished(p) /\ remote[p].kind = "raised")
        => (ret[p].success = FALSE /\ ret[p].error # "")

\* C3: when the remote call gave a URL and a step of the local save failed,
\* the record returned has success=true and neither local path.
C3_SaveFailureKeepsSuccess ==
    \A p \in Procs :
        (Finished(p) /\ download_error[p] # None)
        => /\ remote[p].kind = "reply"
           /\ ret[p].success = TRUE
           /\ ret[p].url = ReplyUrl(p)
           /\ ~HasLocalPaths(ret[p])

C3_Witness ==
    /\ pc[1] = "returned"
    /\ download_error[1] = "json.dump"
    /\ ImageName \in DOMAIN fs.folders[ImageFolder(1)]
    /\ ret[1].success

\* C4: when the remote call gave a URL and every step of the local save
\* succeeded, the record returned holds both local paths, and the metadata
\* file at local_metadata_path parses to the caller's prompt, the record's
\* revised_prompt, model, size, quality, style and timestamp, and the
\* record's local_image_path.
C4_SavedMetadataMatches ==
    \A p \in Procs :
        (/\ Finished(p)
         /\ remote[p].kind = "reply"
         /\ Truthy(ReplyUrl(p))
         /\ download_error[p] = None)
        => /\ ret[p].success = TRUE
           /\ "local_image_path" \in DOMAIN ret[p]
           /\ "local_metadata_path" \in DOMAIN ret[p]
           /\ LET m == JsonLoad(ReadFile(fs, ret[p].local_metadata_path))
              IN  /\ m.prompt = args[p].prompt
                  /\ m.revised_prompt = ret[p].revised_prompt
                  /\ m.model = ret[p].model
                  /\ m.size = ret[p].size
                  /\ m.quality = ret[p].quality
                  /\ m.style = ret[p].style
                  /\ m.timestamp = ret[p].timestamp
                  /\ m.image_path = ret[p].local_image_path

C4_Witness ==
    /\ pc[1] = "returned"
    /\ "local_metadata_path" \in DOMAIN ret[1]
    /\ ~args[1].revise_prompt
    /\ ret[1].revised_prompt = "a red fox in a field"

\* The payload C5 states, written out from the caller's arguments.
ExpectedPayload(a) ==
    LET fixed == [model |-> a.model,
                  prompt |-> IF a.revise_prompt THEN a.prompt
                             ELSE a.prompt \o " do not modify my prompt",
                  n |-> a.n, size |-> a.size, quality |-> a.quality]
    IN  IF a.style = None THEN fixed ELSE fixed @@ ("style" :> a.style)

\* C5: the payload a valid invocation assembles, and the one the remote
\* client receives from it, is the caller's model, n, size and quality, the
\* prompt (with the suffix once when revise_prompt is false), and a style key
\* exactly when the caller gave a style.
C5_Payload ==
    \A p \in Procs :
        /\ pc[p] \notin Rest \/ pc[p] = "returned"
           => /\ params[p] = ExpectedPayload(args[p])
              /\ pc[p] # "call" => sent[p] = ExpectedPayload(args[p])
        /\ pc[p] = "call" => sent[p] = NoParams

C5_Witness ==
    /\ remote[1].kind # "none"
    /\ "style" \in DOMAIN sent[1]
    /\ ~args[1].revise_prompt
    /\ client_calls = 2

\* C6: when the remote call succeeds and its reply holds no image, the record
\* returned has success=true, a null url and no local path, and nothing was
\* saved.
C6_NoImagesRecord ==
    \A p \in Procs :
        (Finished(p) /\ remote[p].kind = "reply" /\ Len(ReplyImages(p)) = 0)
        => /\ ret[p].success = TRUE
           /\ ret[p].url = None
           /\ ~HasLocalPaths(ret[p])
           /\ download_error[p] = None

\* C7: the revised_prompt of a successful record is the one the API supplied
\* for the first image, and the caller's prompt when it supplied none.
C7_RevisedPromptFallback ==
    \A p \in Procs :
        (Finished(p) /\ remote[p].kind = "reply" /\ ret[p].success)
        => ret[p].revised_prompt =
              IF ReplyImages(p)[1].revised_prompt # None
              THEN ReplyImages(p)[1].revised_prompt
              ELSE args[p].prompt

\* C8: after any sequence of completed invocations, every timestamp folder
\* holds exactly the image file and the metadata file.
C8_FoldersComplete ==
    AllAtRest
    => \A d \in DOMAIN fs.folders :
          DOMAIN fs.folders[d] = {ImageName, MetadataName}

\* C9: the history only grows at its end, and between invocations it is the
\* sequence of the records returned with success=true, in the order returned:
\* a fault or a success=false record adds nothing.
C9_HistoryAppendOnly ==
    /\ [](AllAtRest => generated_images = SelectSeq(returned, IsSuccess))
    /\ [][/\ Len(generated_images') \in
                {Len(generated_images), Len(generated_images) + 1}
          /\ SubSeq(generated_images', 1, Len(generated_images))
                = generated_images]_vars

C9_Witness ==
    /\ pc[1] = "returned"
    /\ Len(generated_images) = 2
    /\ generated_images[1] # generated_images[2]
    /\ HasLocalPaths(generated_images[1])
    /\ ret[1] = generated_images[2]

\* C10: once all concurrent invocations have completed, the history holds
\* each record returned with success=true as often as it was returned, and
\* nothing else.
C10_NoLostAppend ==
    AllAtRest
    => LET ok == SelectSeq(returned, IsSuccess)
       IN  /\ Len(generated_images) = Len(ok)
           /\ \A i \in 1..Len(ok) :
                 Count(ok[i], generated_images) = Count(ok[i], ok)

\* Two invocations overlapped: the one that appended first returned last.
C10_Witness ==
    /\ AllAtRest
    /\ Len(generated_images) = 2
    /\ Len(returned) = 2
    /\ generated_images[1] # generated_images[2]
    /\ generated_images[1] = returned[2]
    /\ generated_images[2] = returned[1]

====
